---- MODULE Spec2Model ----
(***************************************************************************)
(* Model of src/src/paragraph.js: the text of a Paragraph, its list of     *)
(* inline formats, the splice operations that shift the formats, the       *)
(* format() state machine with its clear-then-reapply recursion, the       *)
(* range query getFormattedRanges and the generators of {do, undo}         *)
(* operation descriptors.                                                  *)
(*                                                                         *)
(* Offsets (from, to, index) are 0-based as in the source; TLA+ sequences  *)
(* are 1-based, so the array slot k of the source is element k + 1 here.   *)
(* The DOM (this.dom, updateInnerDom_) is write-only for the model text    *)
(* and formats and is not represented.                                     *)
(***************************************************************************)
EXTENDS Integers, Sequences, FiniteSets, TLC

VARIABLES text, formats, placeholderText, paragraphType, indexInSection,
          last, ops

vars == <<text, formats, placeholderText, paragraphType, indexInSection,
          last, ops>>

(***************************************************************************)
(* Bounds of the model.                                                    *)
(***************************************************************************)
\* Longest text the model builds.
MaxLen == 3
\* Longest formats list handed to the constructor.
MaxFormats == 2
\* Longest formats list the sequences of format() calls are followed to.
MaxStored == 2
\* Longest string handed to insertCharactersAt.
MaxChars == 2
\* Largest position of the paragraph in its section, and largest offset.
MaxIndex == 1

\* Format types (tag names); compared as strings by addNewFormatting.
Types == {"b", "i"}
\* Stands for a missing attrs object (undefined in the source).
NoAttrs == "undefined"
\* Values of an attrs object.
AttrVals == {"href"}

\* Characters of the texts whose content is followed.
Chars == {"a", "b", "c"}

\* Order of the type strings under the source's < and > on strings.
TypeRank(t) == IF t = "b" THEN 1 ELSE 2

Min(a, b) == IF a < b THEN a ELSE b
Max(a, b) == IF a > b THEN a ELSE b

\* The ascending sequence of the elements of a finite set of integers.
SortedSeqOf(S) ==
  [k \in 1..Cardinality(S) |->
     CHOOSE i \in S : Cardinality({j \in S : j < i}) = k - 1]

\* All sequences over S of length lo..hi.
SeqsOf(S, lo, hi) == UNION {[1..n -> S] : n \in lo..hi}

\* A format object {type, from, to, attrs}.
Fmt(t, a, b, at) == [type |-> t, from |-> a, to |-> b, attrs |-> at]

\* Formats with 0 <= from < to <= n.
ValidFormats(n, attrSet) ==
  {Fmt(t, a, b, at) : t \in Types, a \in 0..n, b \in 0..n, at \in attrSet}
    \ {g \in [type : Types, from : 0..n, to : 0..n, attrs : attrSet] :
         g.from >= g.to}

IsValid(g, n) == 0 <= g.from /\ g.from < g.to /\ g.to <= n

(***************************************************************************)
(* String.prototype.substring(a, b): both ends are clamped to              *)
(* [0, length] and swapped when a > b.                                     *)
(***************************************************************************)
Clamp(v, n) == IF v < 0 THEN 0 ELSE IF v > n THEN n ELSE v

substring(s, a, b) ==
  LET ca == Clamp(a, Len(s))
      cb == Clamp(b, Len(s))
      lo == Min(ca, cb)
      hi == Max(ca, cb)
  IN [k \in 1..(hi - lo) |-> s[lo + k]]

\* Array.prototype.splice(index, 1) with a 0-based index >= 0: past the
\* end of the array it removes nothing.
splice1(s, index) ==
  IF index + 1 > Len(s) THEN s
  ELSE [k \in 1..(Len(s) - 1) |-> IF k <= index THEN s[k] ELSE s[k + 1]]

(***************************************************************************)
(* shiftFormatsFrom_(startIndex, shift)                                    *)
(***************************************************************************)
\* One iteration's two updates of formats[i].
shiftOne(g, startIndex, shift) ==
  [g EXCEPT !.from = IF g.from >= startIndex THEN g.from + shift ELSE g.from,
            !.to   = IF g.to > startIndex THEN g.to + shift ELSE g.to]

\* Variant of toRemoveOf: the test is made after the iteration has shifted
\* from and to.
toRemoveOf_afterShift(fs, startIndex, shift) ==
  LET S == {i \in 1..Len(fs) :
              LET g == shiftOne(fs[i], startIndex, shift)
              IN startIndex <= g.from /\ startIndex - shift >= g.to}
      seq == SortedSeqOf(S)
  IN [k \in 1..Len(seq) |-> seq[k] - 1]

\* The 0-based slots pushed on toRemove, in loop order; the test reads
\* from and to before the same iteration shifts them.
toRemoveOf(fs, startIndex, shift) ==
  LET S == {i \in 1..Len(fs) :
              startIndex <= fs[i].from /\ startIndex - shift >= fs[i].to}
      seq == SortedSeqOf(S)
  IN [k \in 1..Len(seq) |-> seq[k] - 1]

\* The second loop: splice(toRemove[i], 1) in order, on the shrinking array.
RECURSIVE spliceAll(_, _, _)
spliceAll(fs, toRemove, i) ==
  IF i > Len(toRemove) THEN fs
  ELSE spliceAll(splice1(fs, toRemove[i]), toRemove, i + 1)

shiftFormatsFrom_(fs, startIndex, shift) ==
  LET shifted == [i \in 1..Len(fs) |-> shiftOne(fs[i], startIndex, shift)]
  IN spliceAll(shifted, toRemoveOf(fs, startIndex, shift), 1)

\* setText: this.text = text || ''.
setText(t) == t

\* Variant of insertedText: the characters overwrite the text at index.
insertedText_overwrite(t, chars, index) ==
  substring(t, 0, index) \o chars \o substring(t, index + Len(chars), Len(t))

\* The text built by insertCharactersAt.
insertedText(t, chars, index) ==
  substring(t, 0, index) \o chars \o substring(t, index, Len(t))

\* The text built by removeCharactersAt.
removedText(t, index, count) ==
  substring(t, 0, index) \o substring(t, index + count, Len(t))

(***************************************************************************)
(* getFormattedRanges(format, matchType)                                   *)
(***************************************************************************)
\* Variant of inRange: a stored format that starts at the end of the
\* queried range passes the last test.
inRange_touching(e, format) ==
  /\ ~(e.from > format.to)
  /\ \/ (e.from < format.from /\ e.to >= format.to)
     \/ (e.from >= format.from /\ e.to <= format.to)
     \/ (e.to > format.from /\ e.to <= format.to /\ e.from < format.from)
     \/ (e.from >= format.from /\ e.from <= format.to /\ e.to > format.to)

\* The test of one stored format e against the queried range.
inRange(e, format) ==
  /\ ~(e.from > format.to)
  /\ \/ (e.from < format.from /\ e.to >= format.to)
     \/ (e.from >= format.from /\ e.to <= format.to)
     \/ (e.to > format.from /\ e.to <= format.to /\ e.from < format.from)
     \/ (e.from >= format.from /\ e.from < format.to /\ e.to > format.to)

\* Slots (1-based) of matchingFormats, in list order.
matchingFormats(fs, format) ==
  SortedSeqOf({i \in 1..Len(fs) : inRange(fs[i], format)})

\* Slots (1-based) of matchingFormatsWithType, in list order.
matchingFormatsWithType(fs, format) ==
  SortedSeqOf({i \in 1..Len(fs) :
                 inRange(fs[i], format) /\ fs[i].type = format.type})

\* Variant of getFormattedRanges: with matchType the formats of the
\* query's type are returned whatever else overlaps.
getFormattedRanges_partial(fs, format, matchType) ==
  LET all == matchingFormats(fs, format)
      typed == matchingFormatsWithType(fs, format)
      ret(sl) == [defined |-> TRUE, slots |-> sl,
                  list |-> [k \in 1..Len(sl) |-> fs[sl[k]]]]
  IN IF matchType THEN ret(typed) ELSE ret(all)

\* The returned value: defined = FALSE stands for undefined (no return
\* statement is reached); slots are the positions of the returned objects
\* in this.formats and list the objects themselves.
getFormattedRanges(fs, format, matchType) ==
  LET all == matchingFormats(fs, format)
      typed == matchingFormatsWithType(fs, format)
      ret(sl) == [defined |-> TRUE, slots |-> sl,
                  list |-> [k \in 1..Len(sl) |-> fs[sl[k]]]]
  IN IF matchType
     THEN IF Len(typed) = Len(all)
          THEN ret(typed)
          ELSE [defined |-> FALSE, slots |-> <<>>, list |-> <<>>]
     ELSE ret(all)

(***************************************************************************)
(* addNewFormatting(format): push, then Array.prototype.sort with the      *)
(* comparator on from, then type.  The sort is stable.                     *)
(***************************************************************************)
\* The comparator's result is negative.
sortsBefore(a, b) ==
  \/ a.from < b.from
  \/ (a.from = b.from /\ TypeRank(a.type) < TypeRank(b.type))

\* The comparator's result is 0.
sortsEqual(a, b) == a.from = b.from /\ a.type = b.type

sortFormats(fs) ==
  LET rank(i) == 1 + Cardinality({j \in 1..Len(fs) : sortsBefore(fs[j], fs[i])})
                   + Cardinality({j \in 1..(i - 1) : sortsEqual(fs[j], fs[i])})
  IN [k \in 1..Len(fs) |-> fs[CHOOSE i \in 1..Len(fs) : rank(i) = k]]

addNewFormatting(fs, format) == sortFormats(Append(fs, format))

(***************************************************************************)
(* normalizeFormats_()                                                     *)
(***************************************************************************)
\* Variant of normalizeLoop: the test reads the end of the previous format
\* of the old list, not of the last format of the new list.
RECURSIVE normalizeLoop_prevOld(_, _, _)
normalizeLoop_prevOld(fs, newFormats, i) ==
  IF i > Len(fs) THEN newFormats
  ELSE LET n == Len(newFormats)
           lastF == fs[i - 1]
       IN IF \/ lastF.to > fs[i].from
             \/ (lastF.to = fs[i].from /\ lastF.type = fs[i].type)
          THEN normalizeLoop_prevOld(fs, [newFormats EXCEPT ![n].to = fs[i].to], i + 1)
          ELSE normalizeLoop_prevOld(fs, Append(newFormats, fs[i]), i + 1)

RECURSIVE normalizeLoop(_, _, _)
normalizeLoop(fs, newFormats, i) ==
  IF i > Len(fs) THEN newFormats
  ELSE LET n == Len(newFormats)
           lastF == newFormats[n]
       IN IF \/ lastF.to > fs[i].from
             \/ (lastF.to = fs[i].from /\ lastF.type = fs[i].type)
          THEN normalizeLoop(fs, [newFormats EXCEPT ![n].to = fs[i].to], i + 1)
          ELSE normalizeLoop(fs, Append(newFormats, fs[i]), i + 1)

normalizeFormats_(fs) ==
  IF Len(fs) = 0 THEN fs ELSE normalizeLoop(fs, <<fs[1]>>, 2)

(***************************************************************************)
(* format(format, clear)                                                   *)
(*                                                                         *)
(* The loop finds each matched object again with indexOf, by identity.     *)
(* For the loop every stored object carries an id; objects made by the     *)
(* split branch get fresh ids.                                             *)
(***************************************************************************)
tagged(fs) ==
  [k \in 1..Len(fs) |-> [type |-> fs[k].type, from |-> fs[k].from,
                         to |-> fs[k].to, attrs |-> fs[k].attrs, id |-> k]]

untagged(ft) ==
  [k \in 1..Len(ft) |-> Fmt(ft[k].type, ft[k].from, ft[k].to, ft[k].attrs)]

\* this.formats.indexOf(obj), 0-based (the object is always present).
indexOf(ft, id) == (CHOOSE k \in 1..Len(ft) : ft[k].id = id) - 1

\* this.formats[index] = existingFormat
replaceAt(ft, index, g) == [ft EXCEPT ![index + 1] = g]

\* Variant of formatStep: the test for the same range compares from with
\* the stored to.
formatStep_noToggle(ft, format, clear, id, nextId) ==
  LET index == indexOf(ft, id)
      existingFormat == ft[index + 1]
  IN IF format.attrs # NoAttrs
     THEN replaceAt(ft, index, [existingFormat EXCEPT !.attrs = format.attrs])
     ELSE IF format.to = existingFormat.to /\ format.from = existingFormat.to
     THEN splice1(ft, index)
     ELSE IF \/ format.to = existingFormat.to
             \/ (format.to > existingFormat.to /\
                 format.from < existingFormat.to /\ clear)
     THEN replaceAt(ft, index, [existingFormat EXCEPT !.to = format.from])
     ELSE IF \/ format.from = existingFormat.from
             \/ (format.from < existingFormat.from /\
                 format.to > existingFormat.from /\ clear)
     THEN replaceAt(ft, index, [existingFormat EXCEPT !.from = format.to])
     ELSE IF format.to < existingFormat.to /\ format.from > existingFormat.from
     THEN addNewFormatting(
            addNewFormatting(
              splice1(ft, index),
              [type |-> existingFormat.type, from |-> existingFormat.from,
               to |-> format.from, attrs |-> NoAttrs, id |-> nextId]),
            [type |-> existingFormat.type, from |-> format.to,
             to |-> existingFormat.to, attrs |-> NoAttrs, id |-> nextId + 1])
     ELSE IF ~clear
     THEN replaceAt(ft, index,
            [existingFormat EXCEPT
               !.from = Min(existingFormat.from, format.from),
               !.to = Max(existingFormat.to, format.to)])
     ELSE splice1(ft, index)

\* The body of the for loop for one matched object.
formatStep(ft, format, clear, id, nextId) ==
  LET index == indexOf(ft, id)
      existingFormat == ft[index + 1]
  IN IF format.attrs # NoAttrs
     THEN replaceAt(ft, index, [existingFormat EXCEPT !.attrs = format.attrs])
     ELSE IF format.to = existingFormat.to /\ format.from = existingFormat.from
     THEN splice1(ft, index)
     ELSE IF \/ format.to = existingFormat.to
             \/ (format.to > existingFormat.to /\
                 format.from < existingFormat.to /\ clear)
     THEN replaceAt(ft, index, [existingFormat EXCEPT !.to = format.from])
     ELSE IF \/ format.from = existingFormat.from
             \/ (format.from < existingFormat.from /\
                 format.to > existingFormat.from /\ clear)
     THEN replaceAt(ft, index, [existingFormat EXCEPT !.from = format.to])
     ELSE IF format.to < existingFormat.to /\ format.from > existingFormat.from
     THEN addNewFormatting(
            addNewFormatting(
              splice1(ft, index),
              [type |-> existingFormat.type, from |-> existingFormat.from,
               to |-> format.from, attrs |-> NoAttrs, id |-> nextId]),
            [type |-> existingFormat.type, from |-> format.to,
             to |-> existingFormat.to, attrs |-> NoAttrs, id |-> nextId + 1])
     ELSE IF ~clear
     THEN replaceAt(ft, index,
            [existingFormat EXCEPT
               !.from = Min(existingFormat.from, format.from),
               !.to = Max(existingFormat.to, format.to)])
     ELSE splice1(ft, index)

RECURSIVE formatLoop(_, _, _, _, _, _)
formatLoop(ft, format, clear, ids, i, nextId) ==
  IF i > Len(ids) THEN ft
  ELSE formatLoop(formatStep(ft, format, clear, ids[i], nextId),
                  format, clear, ids, i + 1, nextId + 2)

\* format(format, true): the clear pass.  It never recurses: its query is
\* getFormattedRanges(format, false), and when that is empty the second
\* query is empty too.
formatClear(fs, format) ==
  LET originalExistingFormats == getFormattedRanges(fs, format, FALSE)
  IN IF Len(originalExistingFormats.slots) > 0
     THEN untagged(formatLoop(tagged(fs), format, TRUE,
                              originalExistingFormats.slots, 1, Len(fs) + 1))
     ELSE addNewFormatting(fs, format)

\* format(format) with clear unset.  path holds the formats lists with which
\* the enclosing calls of this recursion were entered.  The call returns
\* [done |-> TRUE, formats, depth] when it returns, and [done |-> FALSE] with
\* the lists of the cycle when it is entered again with a list an enclosing
\* call was entered with: the recursion then never ends.
RECURSIVE formatRec(_, _, _)
formatRec(fs, format, path) ==
  LET originalExistingFormats == getFormattedRanges(fs, format, TRUE)
      formattedRanges == getFormattedRanges(fs, format, FALSE)
  IN IF originalExistingFormats.defined /\ Len(originalExistingFormats.slots) > 0
     THEN [done |-> TRUE, depth |-> Len(path) + 1, cycle |-> {},
           formats |-> normalizeFormats_(
              untagged(formatLoop(tagged(fs), format, FALSE,
                                  originalExistingFormats.slots, 1, Len(fs) + 1)))]
     ELSE IF Len(formattedRanges.slots) = 0
     THEN [done |-> TRUE, depth |-> Len(path) + 1, cycle |-> {},
           formats |-> normalizeFormats_(addNewFormatting(fs, format))]
     ELSE IF \E k \in 1..Len(path) : path[k] = fs
     THEN [done |-> FALSE, depth |-> Len(path) + 1, formats |-> fs,
           cycle |-> {path[j] : j \in (CHOOSE k \in 1..Len(path) : path[k] = fs)..Len(path)}]
     ELSE LET inner == formatRec(formatClear(fs, format), format, Append(path, fs))
          IN IF inner.done
             THEN [inner EXCEPT !.formats = normalizeFormats_(inner.formats)]
             ELSE inner

format(fs, f) == formatRec(fs, f, <<>>)

(***************************************************************************)
(* Operation descriptors                                                   *)
(***************************************************************************)
\* this.name and this.section.name: assigned by the owning section.
ComponentName == "paragraph-1"
SectionName == "section-1"

\* An optional number argument is <<>> when omitted, <<n>> when passed.
\* (optIndexOffset || 0)
orZero(opt) == IF Len(opt) = 0 THEN 0 ELSE opt[1]

\* Variant of getDeleteOps: the offset is left out of the undo index.
getDeleteOps_noOffset(optIndexOffset) ==
  << [do |-> [op |-> "deleteComponent", component |-> ComponentName],
      undo |-> [op |-> "insertComponent",
                componentClass |-> "Paragraph",
                section |-> SectionName,
                component |-> ComponentName,
                index |-> indexInSection,
                attrs |-> [text |-> text,
                           placeholderText |-> placeholderText,
                           paragraphType |-> paragraphType,
                           formats |-> formats]]] >>

getDeleteOps(optIndexOffset) ==
  << [do |-> [op |-> "deleteComponent", component |-> ComponentName],
      undo |-> [op |-> "insertComponent",
                componentClass |-> "Paragraph",
                section |-> SectionName,
                component |-> ComponentName,
                index |-> indexInSection + orZero(optIndexOffset),
                attrs |-> [text |-> text,
                           placeholderText |-> placeholderText,
                           paragraphType |-> paragraphType,
                           formats |-> formats]]] >>

\* Variant of getInsertCharsOps: the undo removes one character.
getInsertCharsOps_countOne(chars, index) ==
  << [do |-> [op |-> "insertChars", component |-> ComponentName,
              cursorOffset |-> index + Len(chars),
              value |-> chars,
              index |-> index],
      undo |-> [op |-> "removeChars", component |-> ComponentName,
                cursorOffset |-> index,
                index |-> index,
                count |-> 1]] >>

getInsertCharsOps(chars, index) ==
  << [do |-> [op |-> "insertChars", component |-> ComponentName,
              cursorOffset |-> index + Len(chars),
              value |-> chars,
              index |-> index],
      undo |-> [op |-> "removeChars", component |-> ComponentName,
                cursorOffset |-> index,
                index |-> index,
                count |-> Len(chars)]] >>

getRemoveCharsOps(chars, index, optDirection) ==
  << [do |-> [op |-> "removeChars", component |-> ComponentName,
              cursorOffset |-> index,
              index |-> index,
              count |-> Len(chars)],
      undo |-> [op |-> "insertChars", component |-> ComponentName,
                cursorOffset |-> index - orZero(optDirection),
                value |-> chars,
                index |-> index]] >>

getUpdateOps(attrs, optCursorOffset, optSelectRange) ==
  << [do |-> [op |-> "updateComponent", component |-> ComponentName,
              cursorOffset |-> optCursorOffset,
              selectRange |-> optSelectRange,
              formats |-> attrs.formats],
      undo |-> [op |-> "updateComponent", component |-> ComponentName,
                cursorOffset |-> optCursorOffset,
                selectRange |-> optSelectRange,
                formats |-> attrs.formats]] >>

(***************************************************************************)
(* The state machine.                                                      *)
(*                                                                         *)
(* last records the most recent call: its name, its arguments and what it  *)
(* returned.  ops is the list returned by the most recent get...Ops call.  *)
(***************************************************************************)
NoFormat == Fmt("b", 0, 0, NoAttrs)
NoResult == [defined |-> FALSE, slots |-> <<>>, list |-> <<>>]

Call(op, f, index, count, chars, flag, done, result) ==
  [op |-> op, f |-> f, index |-> index, count |-> count, chars |-> chars,
   flag |-> flag, done |-> done, result |-> result]

NoCall ==
  [op |-> "new", f |-> NoFormat, index |-> 0, count |-> 0, chars |-> <<>>,
   flag |-> FALSE, done |-> TRUE, result |-> NoResult]

\* One text of every length: the formats depend on the text's length only.
TextOfLen(n) == [k \in 1..n |-> "x"]

\* Lists of at most MaxFormats different valid formats over a text of
\* length n, in the order addNewFormatting keeps: by from, then type.
FormatLists(n, attrSet) ==
  {fs \in SeqsOf(ValidFormats(n, attrSet), 0, MaxFormats) :
     /\ \A k \in 1..(Len(fs) - 1) : ~sortsBefore(fs[k + 1], fs[k])
     /\ \A j, k \in 1..Len(fs) : j # k => fs[j] # fs[k]}

AllValid(fs, n) == \A k \in 1..Len(fs) : IsValid(fs[k], n)

\* new Paragraph({text, formats, placeholderText, paragraphType})
Construct(t, fs, ph, pt) ==
  /\ text = setText(t)
  /\ formats = fs
  /\ placeholderText = ph
  /\ paragraphType = pt
  /\ last = NoCall
  /\ ops = <<>>

InsertCharactersAt(chars, index) ==
  /\ Len(text) + Len(chars) <= MaxLen
  /\ formats' = shiftFormatsFrom_(formats, index, Len(chars))
  /\ text' = setText(insertedText(text, chars, index))
  /\ last' = Call("insertCharactersAt", NoFormat, index, Len(chars), chars,
                  FALSE, TRUE, NoResult)
  /\ UNCHANGED <<placeholderText, paragraphType, indexInSection, ops>>

RemoveCharactersAt(index, count) ==
  /\ formats' = shiftFormatsFrom_(formats, index, -1 * count)
  /\ text' = setText(removedText(text, index, count))
  /\ last' = Call("removeCharactersAt", NoFormat, index, count, <<>>,
                  FALSE, TRUE, NoResult)
  /\ UNCHANGED <<placeholderText, paragraphType, indexInSection, ops>>

\* format(f) with clear unset.  When the recursion never ends the engine
\* throws RangeError out of the call (done = FALSE) and the formats are left
\* as one of the lists the recursion cycles through.
Format(f) ==
  \E r \in {format(formats, f)} :
     /\ IF r.done THEN formats' = r.formats ELSE formats' \in r.cycle
     /\ last' = Call("format", f, 0, 0, <<>>, FALSE, r.done, NoResult)
     /\ UNCHANGED <<text, placeholderText, paragraphType, indexInSection, ops>>

GetFormattedRanges(query, matchType) ==
  /\ last' = Call("getFormattedRanges", query, 0, 0, <<>>, matchType, TRUE,
                  getFormattedRanges(formats, query, matchType))
  /\ UNCHANGED <<text, formats, placeholderText, paragraphType,
                 indexInSection, ops>>

GetDeleteOps(optIndexOffset) ==
  /\ ops' = getDeleteOps(optIndexOffset)
  /\ last' = Call("getDeleteOps", NoFormat,
                  IF optIndexOffset = <<>> THEN 0 ELSE optIndexOffset[1], 0,
                  <<>>, optIndexOffset # <<>>, TRUE, NoResult)
  /\ UNCHANGED <<text, formats, placeholderText, paragraphType, indexInSection>>

GetUpdateOps(attrs) ==
  /\ ops' = getUpdateOps(attrs, 0, 0)
  /\ last' = Call("getUpdateOps", NoFormat, 0, 0, <<>>, FALSE, TRUE,
                  [defined |-> TRUE, slots |-> <<>>, list |-> attrs.formats])
  /\ UNCHANGED <<text, formats, placeholderText, paragraphType, indexInSection>>

\* normalizeFormats_() on the stored list; last.result.list keeps the list
\* the call found.
NormalizeFormats_ ==
  /\ formats' = normalizeFormats_(formats)
  /\ last' = Call("normalizeFormats_", NoFormat, 0, 0, <<>>, FALSE, TRUE,
                  [defined |-> TRUE, slots |-> <<>>, list |-> formats])
  /\ UNCHANGED <<text, placeholderText, paragraphType, indexInSection, ops>>

GetInsertCharsOps(chars, index) ==
  /\ ops' = getInsertCharsOps(chars, index)
  /\ last' = Call("getInsertCharsOps", NoFormat, index, Len(chars), chars,
                  FALSE, TRUE, NoResult)
  /\ UNCHANGED <<text, formats, placeholderText, paragraphType, indexInSection>>

GetRemoveCharsOps(chars, index, optDirection) ==
  /\ ops' = getRemoveCharsOps(chars, index, optDirection)
  /\ last' = Call("getRemoveCharsOps", NoFormat, index, Len(chars), chars,
                  optDirection # <<>>, TRUE, NoResult)
  /\ UNCHANGED <<text, formats, placeholderText, paragraphType, indexInSection>>

(***************************************************************************)
(* Editing: splices on a paragraph constructed with valid formats.         *)
(***************************************************************************)
InitEdit ==
  /\ indexInSection = 0
  /\ \E n \in 0..MaxLen : \E fs \in FormatLists(n, {NoAttrs}) :
       Construct(TextOfLen(n), fs, "null", "p")

NextInsert ==
  \E chars \in SeqsOf({"x"}, 1, MaxChars) : \E index \in 0..Len(text) :
    InsertCharactersAt(chars, index)

NextRemove ==
  \E index \in 0..Len(text) : \E count \in 1..(Len(text) - index) :
    RemoveCharactersAt(index, count)

NextEdit == NextInsert \/ NextRemove

SpecEdit == InitEdit /\ [][NextEdit]_vars

(***************************************************************************)
(* Editing with any arguments: the splices are also called with an index   *)
(* or a count that reaches one past the end of the text.                   *)
(***************************************************************************)
InitRange ==
  /\ indexInSection = 0
  /\ \E n \in 0..MaxLen : \E fs \in FormatLists(n, {NoAttrs}) :
       Construct(TextOfLen(n), fs, "null", "p")

NextRangeInsert ==
  \E chars \in SeqsOf({"x"}, 1, MaxChars) : \E index \in 0..(Len(text) + 1) :
    InsertCharactersAt(chars, index)

NextRangeRemove ==
  \E index \in 0..(Len(text) + 1) :
    \E count \in 1..Max(1, Len(text) + 1 - index) :
      RemoveCharactersAt(index, count)

NextRange == NextRangeInsert \/ NextRangeRemove

SpecRange == InitRange /\ [][NextRange]_vars

(***************************************************************************)
(* Editing a longer paragraph: splices on a paragraph constructed with a   *)
(* text of up to MaxLen + 2 characters and up to MaxFormats + 1 valid      *)
(* formats.                                                                *)
(***************************************************************************)
\* Lists of at most m different valid formats over a text of length n, by
\* from, then type.
FormatListsUpTo(n, m) ==
  {fs \in SeqsOf(ValidFormats(n, {NoAttrs}), 0, m) :
     \A k \in 1..(Len(fs) - 1) : sortsBefore(fs[k], fs[k + 1])}

InitShift ==
  /\ indexInSection = 0
  /\ \E n \in 0..(MaxLen + 2) : \E fs \in FormatListsUpTo(n, MaxFormats + 1) :
       Construct(TextOfLen(n), fs, "null", "p")

NextShiftInsert ==
  \E chars \in SeqsOf({"x"}, 1, MaxChars) : \E index \in 0..Len(text) :
    InsertCharactersAt(chars, index)

NextShiftRemove ==
  \E index \in 0..Len(text) : \E count \in 1..(Len(text) - index) :
    RemoveCharactersAt(index, count)

NextShift == NextShiftInsert \/ NextShiftRemove

SpecShift == InitShift /\ [][NextShift]_vars

(***************************************************************************)
(* Formatting: format(f) without attrs on a paragraph constructed with no  *)
(* formats.                                                                *)
(***************************************************************************)
InitFormat ==
  /\ indexInSection = 0
  /\ \E n \in 0..MaxLen : Construct(TextOfLen(n), <<>>, "null", "p")

\* Calls that would leave more than MaxStored formats are not explored.
NextFormat ==
  \E f \in ValidFormats(Len(text), {NoAttrs}) :
    Format(f) /\ Len(formats') <= MaxStored

SpecFormat == InitFormat /\ [][NextFormat]_vars

(***************************************************************************)
(* One format(f) call, with or without attrs, on a paragraph constructed   *)
(* with any list of valid formats.                                         *)
(***************************************************************************)
InitApply ==
  /\ indexInSection = 0
  /\ \E n \in 0..MaxLen : \E fs \in FormatLists(n, {NoAttrs} \cup AttrVals) :
       Construct(TextOfLen(n), fs, "null", "p")

NextApply ==
  /\ last.op = "new"
  /\ \E f \in ValidFormats(Len(text), {NoAttrs} \cup AttrVals) : Format(f)

SpecApply == InitApply /\ [][NextApply]_vars

(***************************************************************************)
(* Normalisation of any list: a paragraph constructed with a list of       *)
(* formats of any types and any ranges, in the order of their from.        *)
(***************************************************************************)
\* The froms of m formats in ascending order.
FromsInOrder(m) ==
  {g \in [1..m -> 0..MaxLen] : \A k \in 1..(m - 1) : g[k] <= g[k + 1]}

\* The list of the formats with types ty, froms fr and tos to.
ListOf(ty, fr, to) ==
  [k \in 1..Len(ty) |-> Fmt(ty[k], fr[k], to[k], NoAttrs)]

\* At most MaxFormats + 1 formats, from and to anywhere in 0..MaxLen.
InitNormalize ==
  /\ indexInSection = 0
  /\ \E m \in 0..(MaxFormats + 1) :
       \E ty \in [1..m -> Types] : \E fr \in FromsInOrder(m) :
         \E to \in [1..m -> 0..MaxLen] :
           Construct(TextOfLen(MaxLen), ListOf(ty, fr, to), "null", "p")

NextNormalize == NormalizeFormats_

SpecNormalize == InitNormalize /\ [][NextNormalize]_vars

(***************************************************************************)
(* Queries on a paragraph constructed with any list of valid formats.      *)
(***************************************************************************)
InitQuery ==
  /\ indexInSection = 0
  /\ \E n \in 0..MaxLen : \E fs \in FormatLists(n, {NoAttrs}) :
       Construct(TextOfLen(n), fs, "null", "p")

NextQuery ==
  \E query \in ValidFormats(Len(text), {NoAttrs}) : \E matchType \in BOOLEAN :
    GetFormattedRanges(query, matchType)

SpecQuery == InitQuery /\ [][NextQuery]_vars

(***************************************************************************)
(* Operation descriptors of a paragraph constructed with any list of       *)
(* valid formats, at any place in its section.                             *)
(***************************************************************************)
InitOps ==
  /\ indexInSection \in 0..MaxIndex
  /\ \E n \in 0..MaxLen : \E fs \in FormatLists(n, {NoAttrs}) :
       \E p \in {<<"null", "p">>, <<"hint", "h1">>} :
         Construct(TextOfLen(n), fs, p[1], p[2])

NextDeleteOps ==
  \E optIndexOffset \in {<<>>} \cup {<<n>> : n \in 0..MaxIndex} :
    GetDeleteOps(optIndexOffset)

\* getUpdateOps is handed the stored list without one of its formats, or
\* with one format more over the whole text.
NextUpdateOps ==
  \/ \E k \in 1..Len(formats) : GetUpdateOps([formats |-> splice1(formats, k - 1)])
  \/ \E t \in Types :
       /\ Len(text) > 0
       /\ GetUpdateOps([formats |->
            addNewFormatting(formats, Fmt(t, 0, Len(text), NoAttrs))])

NextOps == NextDeleteOps \/ NextUpdateOps

SpecOps == InitOps /\ [][NextOps]_vars

(***************************************************************************)
(* Text: splices on a paragraph constructed with any text and no formats;  *)
(* the content of the text is followed.                                    *)
(***************************************************************************)
InitText ==
  /\ indexInSection = 0
  /\ \E t \in SeqsOf(Chars, 0, MaxLen) : Construct(t, <<>>, "null", "p")

NextTextInsert ==
  \E chars \in SeqsOf(Chars, 1, MaxChars) : \E index \in 0..Len(text) :
    InsertCharactersAt(chars, index)

NextTextRemove ==
  \E index \in 0..Len(text) : \E count \in 1..(Len(text) - index) :
    RemoveCharactersAt(index, count)

NextText == NextTextInsert \/ NextTextRemove

SpecText == InitText /\ [][NextText]_vars

(***************************************************************************)
(* One request for the operation descriptors of a splice, on a paragraph   *)
(* constructed with any text (the requests leave the paragraph as it is).  *)
(***************************************************************************)
InitCharOps ==
  /\ indexInSection = 0
  /\ \E t \in SeqsOf(Chars, 0, MaxLen) : Construct(t, <<>>, "null", "p")

NextInsertCharsOps ==
  /\ last.op = "new"
  /\ \E chars \in SeqsOf(Chars, 1, MaxChars) : \E index \in 0..Len(text) :
       GetInsertCharsOps(chars, index)

NextRemoveCharsOps ==
  /\ last.op = "new"
  /\ \E chars \in SeqsOf(Chars, 1, MaxChars) : \E index \in 0..Len(text) :
       \E optDirection \in {<<>>, <<-1>>, <<1>>} :
         GetRemoveCharsOps(chars, index, optDirection)

NextCharOps == NextInsertCharsOps \/ NextRemoveCharsOps

SpecCharOps == InitCharOps /\ [][NextCharOps]_vars

\* Every operation, from every constructed paragraph.
Init == InitOps
Next ==
  \/ NextEdit \/ NextRange \/ NextShift \/ NextFormat \/ NextQuery \/ NextOps
  \/ NextText \/ NextCharOps \/ NextNormalize
Spec == Init /\ [][Next]_vars

(***************************************************************************)
(* Properties of the splices (SpecEdit).                                   *)
(***************************************************************************)
\* C1: after any sequence of insertCharactersAt and removeCharactersAt with
\* indices inside the text, on a paragraph constructed with valid formats,
\* every stored format satisfies 0 <= from <= to <= text.length.
C1_FormatsWithinText ==
  \A k \in 1..Len(formats) :
    /\ 0 <= formats[k].from
    /\ formats[k].from <= formats[k].to
    /\ formats[k].to <= Len(text)

\* The stored format g lies entirely within the region removed by
\* removeCharactersAt(index, count).
WithinRemoved(g, index, count) == index <= g.from /\ g.to <= index + count

\* The formats a removal must keep, in list order, as the loop shifts them.
KeptShifted(fs, index, count) ==
  LET keep == SortedSeqOf({i \in 1..Len(fs) : ~WithinRemoved(fs[i], index, count)})
  IN [k \in 1..Len(keep) |-> shiftOne(fs[keep[k]], index, -1 * count)]

\* C5: removeCharactersAt(index, count) drops exactly the formats that lie
\* entirely within the removed region: the formats left are the other
\* formats, all of them, in their order.
C5_RemoveDropsExactlyContained ==
  [][last'.op = "removeCharactersAt" =>
       formats' = KeptShifted(formats, last'.index, last'.count)]_vars

\* C6: on a list of valid formats, insertCharactersAt(chars, s) followed by
\* removeCharactersAt(s, chars.length) gives back the list as it was before
\* the insertion.
C6_InsertThenRemoveRestores ==
  [][(last'.op = "insertCharactersAt" /\ AllValid(formats, Len(text))) =>
       shiftFormatsFrom_(formats', last'.index, -1 * last'.count) = formats]_vars

\* C6 witness: characters were inserted inside a stored format and before
\* another one, both moved, and removing the characters moves them back.
C6_Witness ==
  /\ last.op = "insertCharactersAt"
  /\ Len(formats) = 2
  /\ AllValid(formats, Len(text))
  /\ formats[1].from < last.index /\ formats[1].to >= last.index + last.count
  /\ formats[2].from >= last.index + last.count
  /\ shiftFormatsFrom_(formats, last.index, -1 * last.count) # formats

(***************************************************************************)
(* Properties of format() on a paragraph constructed without formats       *)
(* (SpecFormat).                                                           *)
(***************************************************************************)
\* C2: after any sequence of format(f) calls without attrs, every stored
\* format has from < to.
C2_NoEmptyOrInvertedRange ==
  \A k \in 1..Len(formats) : formats[k].from < formats[k].to

\* The list is sorted by from ascending, then type ascending.
SortedByFromThenType(fs) ==
  \A k \in 1..(Len(fs) - 1) :
    \/ fs[k].from < fs[k + 1].from
    \/ (fs[k].from = fs[k + 1].from /\
        TypeRank(fs[k].type) <= TypeRank(fs[k + 1].type))

\* Two ranges overlap or touch.
OverlapOrTouch(g, h) == g.from <= h.to /\ h.from <= g.to

\* C3: after any sequence of format(f) calls without attrs, the formats
\* list is sorted by from then type, and no two stored ranges of the same
\* type overlap or touch.
C3_SortedAndMerged ==
  /\ SortedByFromThenType(formats)
  /\ \A i, j \in 1..Len(formats) :
       (i # j /\ formats[i].type = formats[j].type) =>
         ~OverlapOrTouch(formats[i], formats[j])

\* Two half-open ranges intersect.
Intersects(g, h) == g.from < h.to /\ h.from < g.to

\* The stored range e has f's type and contains f's range.
SameTypeContains(e, f) == e.type = f.type /\ e.from <= f.from /\ f.to <= e.to

\* C4 as claimed: after format(f), a second format(f) gives back the list
\* the first call found, for every reachable list and every valid f.
C4_TwiceRestoresAlways ==
  [][last'.op = "format" => format(formats', last'.f).formats = formats]_vars

\* C4 as amended: when every stored range has from < to and every stored
\* range that intersects f's range has f's type and contains f's range
\* (none intersecting included), format(f) twice in a row gives back the
\* list the first call found.
C4_TwiceRestoresWhenContained ==
  [][(/\ last'.op = "format"
      /\ \A k \in 1..Len(formats) :
           /\ formats[k].from < formats[k].to
           /\ Intersects(formats[k], last'.f) =>
                SameTypeContains(formats[k], last'.f))
       => format(formats', last'.f).formats = formats]_vars

\* C4 witness: format(f) has just cut f's range out of the middle of a
\* stored range of f's type, leaving its two ends, and format(f) once more
\* joins them into the one range again.
C4_Witness ==
  /\ last.op = "format"
  /\ Len(formats) = 2
  /\ formats[1].type = last.f.type /\ formats[2].type = last.f.type
  /\ formats[1].from < formats[1].to /\ formats[1].to = last.f.from
  /\ formats[2].from = last.f.to /\ formats[2].from < formats[2].to
  /\ format(formats, last.f).formats =
       <<Fmt(last.f.type, formats[1].from, formats[2].to, NoAttrs)>>

(***************************************************************************)
(* Termination of format() (SpecApply).                                    *)
(***************************************************************************)
\* C8: every call format(f), with or without attrs, on any list of valid
\* formats returns: the clear-then-reapply recursion ends.
C8_FormatReturns == last.op = "format" => last.done

(***************************************************************************)
(* Properties of one format(f) call without attrs on a well-formed list    *)
(* (SpecApply).                                                            *)
(***************************************************************************)
\* The list holds the format g.
Holds(fs, g) == \E j \in 1..Len(fs) : fs[j] = g

\* The positions of the text covered by the ranges of type t.
Covered(fs, t) ==
  {p \in 0..(MaxLen - 1) :
     \E k \in 1..Len(fs) : fs[k].type = t /\ fs[k].from <= p /\ p < fs[k].to}

\* The list is one the formatting rules allow: valid ranges without attrs,
\* sorted by from then type, no two ranges of one type overlapping or
\* touching.
WellFormed(fs, n) ==
  /\ AllValid(fs, n)
  /\ \A k \in 1..Len(fs) : fs[k].attrs = NoAttrs
  /\ SortedByFromThenType(fs)
  /\ \A i, j \in 1..Len(fs) :
       (i # j /\ fs[i].type = fs[j].type) => ~OverlapOrTouch(fs[i], fs[j])

\* The list holds a range of type t from a to b.
HoldsRange(fs, t, a, b) ==
  \E j \in 1..Len(fs) : fs[j].type = t /\ fs[j].from = a /\ fs[j].to = b

\* The call that leads to the next state is format(f) without attrs, made
\* on a well-formed list.
FormatCalledOnWellFormed ==
  /\ last'.op = "format"
  /\ last'.f.attrs = NoAttrs
  /\ WellFormed(formats, Len(text))

\* Slots of the stored formats whose range intersects f's.
IntersectingSlots(fs, f) == {k \in 1..Len(fs) : Intersects(fs[k], f)}

\* f lies strictly inside the stored range e of its type.
StrictlyInside(f, e) == e.type = f.type /\ e.from < f.from /\ f.to < e.to

\* C18: format(f) without attrs, with f strictly inside one stored range e
\* of f's type and no other stored range intersecting f, replaces e by the
\* two ranges [e.from, f.from) and [f.to, e.to) of that type, leaves every
\* other format in the list, and leaves the list sorted.
C18_InteriorSplit ==
  [][FormatCalledOnWellFormed =>
       \A k \in 1..Len(formats) :
         (/\ StrictlyInside(last'.f, formats[k])
          /\ IntersectingSlots(formats, last'.f) = {k}) =>
           /\ last'.done
           /\ HoldsRange(formats', formats[k].type, formats[k].from, last'.f.from)
           /\ HoldsRange(formats', formats[k].type, last'.f.to, formats[k].to)
           /\ ~Holds(formats', formats[k])
           /\ \A j \in 1..Len(formats) : j # k => Holds(formats', formats[j])
           /\ Len(formats') = Len(formats) + 1
           /\ SortedByFromThenType(formats')]_vars

\* The stored range e of f's type overlaps f without an edge in common and
\* without f lying strictly inside it.
PartialNoSharedEdge(f, e) ==
  /\ e.type = f.type
  /\ e.from # f.from /\ e.to # f.to
  /\ ~StrictlyInside(f, e)

\* The least from and the greatest to of f and the formats at the slots S.
SpanFrom(fs, f, S) ==
  CHOOSE a \in {f.from} \cup {fs[k].from : k \in S} :
    \A b \in {f.from} \cup {fs[k].from : k \in S} : a <= b
SpanTo(fs, f, S) ==
  CHOOSE a \in {f.to} \cup {fs[k].to : k \in S} :
    \A b \in {f.to} \cup {fs[k].to : k \in S} : a >= b

\* C19: format(f) without attrs, when the stored ranges intersecting f all
\* have f's type and overlap it without a common edge and without
\* containing it, replaces them and f by one range of that type from the
\* least from to the greatest to, and leaves the formats outside that span
\* in the list.
C19_PartialOverlapExtends ==
  [][FormatCalledOnWellFormed =>
       LET S == IntersectingSlots(formats, last'.f)
           lo == SpanFrom(formats, last'.f, S)
           hi == SpanTo(formats, last'.f, S)
       IN (S # {} /\ \A k \in S : PartialNoSharedEdge(last'.f, formats[k])) =>
            /\ last'.done
            /\ HoldsRange(formats', last'.f.type, lo, hi)
            /\ Len(formats') = Len(formats) - Cardinality(S) + 1
            /\ \A j \in 1..Len(formats) :
                 (formats[j].to <= lo \/ formats[j].from >= hi) =>
                   Holds(formats', formats[j])]_vars

\* The positions of f's range.
SpanOf(f) == {p \in 0..(MaxLen - 1) : f.from <= p /\ p < f.to}

\* C20: format(f) without attrs (f valid), when a stored range of another
\* type intersects f's range, leaves a range of f's type that covers all
\* of f's range, no range of another type intersecting it, no empty or
\* inverted range, and, for every other type, the positions it covered
\* outside f's range still covered.
C20_ClearThenReapply ==
  [][FormatCalledOnWellFormed =>
       ((\E k \in 1..Len(formats) :
           formats[k].type # last'.f.type /\ Intersects(formats[k], last'.f)) =>
         /\ last'.done
         /\ \E j \in 1..Len(formats') :
              /\ formats'[j].type = last'.f.type
              /\ formats'[j].from <= last'.f.from /\ last'.f.to <= formats'[j].to
         /\ \A j \in 1..Len(formats') :
              /\ formats'[j].from < formats'[j].to
              /\ formats'[j].type # last'.f.type => ~Intersects(formats'[j], last'.f)
         /\ \A t \in Types \ {last'.f.type} :
              Covered(formats, t) \ SpanOf(last'.f) \subseteq Covered(formats', t))]_vars

(***************************************************************************)
(* Properties of getFormattedRanges (SpecQuery).                           *)
(***************************************************************************)
\* Slots of the stored formats that intersect the query's range, in order.
Overlapping(fs, query) ==
  SortedSeqOf({k \in 1..Len(fs) : Intersects(fs[k], query)})

\* C9: getFormattedRanges(query, true) returns a list exactly when every
\* stored format overlapping the query's range has the query's type; the
\* list is then all the overlapping formats, in order; otherwise nothing
\* (undefined) is returned.
C9_TypedQueryAllOrNothing ==
  (last.op = "getFormattedRanges" /\ last.flag) =>
    LET over == Overlapping(formats, last.f)
    IN /\ last.result.defined <=>
            \A k \in 1..Len(over) : formats[over[k]].type = last.f.type
       /\ last.result.defined =>
            last.result.list = [k \in 1..Len(over) |-> formats[over[k]]]
       /\ ~last.result.defined => last.result.list = <<>>

\* C9 witness: a typed query returned exactly the one overlapping format
\* of its type while a format of the other type, outside the range, is
\* stored before it.
C9_Witness ==
  /\ last.op = "getFormattedRanges" /\ last.flag
  /\ last.result.defined
  /\ Len(formats) = 2
  /\ formats[1].type # last.f.type /\ ~Intersects(formats[1], last.f)
  /\ last.result.list = <<formats[2]>>

\* C15: for a query with from < to on a list of valid formats,
\* getFormattedRanges(query, false) returns the stored formats whose
\* half-open range intersects the query's, all of them and no other, in
\* list order.
C15_UntypedQueryExactlyIntersecting ==
  (last.op = "getFormattedRanges" /\ ~last.flag) =>
    LET over == Overlapping(formats, last.f)
    IN /\ last.result.defined
       /\ last.result.slots = over
       /\ last.result.list = [k \in 1..Len(over) |-> formats[over[k]]]

\* C15 witness: an untyped query returned the second of two stored formats,
\* of the other type, which reaches out of the queried range on the right,
\* and not the first, which ends where the queried range starts.
C15_Witness ==
  /\ last.op = "getFormattedRanges" /\ ~last.flag
  /\ Len(formats) = 2
  /\ formats[1].to = last.f.from
  /\ formats[2].type # last.f.type
  /\ formats[2].from >= last.f.from /\ formats[2].to > last.f.to
  /\ last.result.list = <<formats[2]>>

(***************************************************************************)
(* Properties of the operation descriptors (SpecOps).                      *)
(***************************************************************************)
\* C7: the undo descriptor returned by getUpdateOps for a formats update
\* carries the formats the paragraph has before the update.
C7_UndoCarriesPriorFormats ==
  last.op = "getUpdateOps" => ops[1].undo.formats = formats

\* C10: getDeleteOps(optIndexOffset) returns one pair deleteComponent /
\* insertComponent whose undo index is the paragraph's index in its section
\* plus the offset (0 when omitted) and whose undo attrs are the
\* paragraph's text, placeholderText, paragraphType and formats.
C10_DeleteOpsSnapshot ==
  last.op = "getDeleteOps" =>
    /\ Len(ops) = 1
    /\ ops[1].do.op = "deleteComponent"
    /\ ops[1].undo.op = "insertComponent"
    /\ ops[1].undo.index = indexInSection + last.index
    /\ ops[1].undo.attrs.text = text
    /\ ops[1].undo.attrs.placeholderText = placeholderText
    /\ ops[1].undo.attrs.paragraphType = paragraphType
    /\ Len(ops[1].undo.attrs.formats) = Len(formats)
    /\ \A k \in 1..Len(formats) :
         /\ ops[1].undo.attrs.formats[k].type = formats[k].type
         /\ ops[1].undo.attrs.formats[k].from = formats[k].from
         /\ ops[1].undo.attrs.formats[k].to = formats[k].to

\* C10 witness: getDeleteOps was called with an offset on a paragraph that
\* is not first in its section and has text, a placeholder and formats.
C10_Witness ==
  /\ last.op = "getDeleteOps" /\ last.flag /\ last.index > 0
  /\ indexInSection > 0
  /\ Len(text) > 0 /\ Len(formats) = 2
  /\ placeholderText = "hint" /\ paragraphType = "h1"
  /\ ops[1].undo.index = indexInSection + last.index

(***************************************************************************)
(* Properties of the text (SpecText).                                      *)
(***************************************************************************)
\* C11: insertCharactersAt(chars, index) with 0 <= index <= text.length
\* puts chars at [index, index + chars.length), leaves the characters
\* before index where they were and moves the characters from index on
\* behind chars; removeCharactersAt(index, chars.length) on the result
\* gives the text as it was before the insertion.
C11_InsertPlacesAndRemoveRestores ==
  [][(last'.op = "insertCharactersAt" /\ last'.index <= Len(text)) =>
       LET index == last'.index
           chars == last'.chars
       IN /\ Len(text') = Len(text) + Len(chars)
          /\ \A k \in 1..index : text'[k] = text[k]
          /\ \A k \in 1..Len(chars) : text'[index + k] = chars[k]
          /\ \A k \in (index + 1)..Len(text) : text'[k + Len(chars)] = text[k]
          /\ removedText(text', index, Len(chars)) = text]_vars

\* C11 witness: characters were inserted strictly inside a text, between
\* two characters that differ from their new neighbours.
C11_Witness ==
  /\ last.op = "insertCharactersAt"
  /\ last.index > 0 /\ last.index + last.count < Len(text)
  /\ text[last.index] # text[last.index + 1]
  /\ text[last.index + last.count] # text[last.index + last.count + 1]
  /\ removedText(text, last.index, last.count) # text

(***************************************************************************)
(* Properties of the splices on a longer paragraph (SpecShift).            *)
(***************************************************************************)
\* C17: a splice at startIndex (an insertion of count characters, or a
\* removal of count characters) leaves a valid stored format with
\* from < startIndex in the list: as it is when to <= startIndex, and with
\* the same from and to changed by the number of characters (added for an
\* insertion, subtracted for a removal) when to > startIndex and, for a
\* removal, startIndex + count <= to.
C17_SpliceBeforeOrInsideFormat ==
  [][(last'.op \in {"insertCharactersAt", "removeCharactersAt"}) =>
       LET startIndex == last'.index
           isRemove == last'.op = "removeCharactersAt"
           delta == IF isRemove THEN -1 * last'.count ELSE last'.count
       IN \A k \in 1..Len(formats) :
            (IsValid(formats[k], Len(text)) /\ formats[k].from < startIndex) =>
              /\ formats[k].to <= startIndex => Holds(formats', formats[k])
              /\ (/\ formats[k].to > startIndex
                  /\ isRemove => startIndex + last'.count <= formats[k].to) =>
                   Holds(formats', [formats[k] EXCEPT !.to = formats[k].to + delta])]_vars

(***************************************************************************)
(* Properties of the splices called with any arguments (SpecRange).        *)
(***************************************************************************)
\* The most recent call, made on a text of length n, was out of range.
OutOfRange(call, n) ==
  \/ (call.op = "insertCharactersAt" /\ call.index > n)
  \/ (call.op = "removeCharactersAt" /\ call.index + call.count > n)

\* C13: insertCharactersAt with index > text.length and removeCharactersAt
\* with index + count > text.length are rejected: the call leaves the text
\* and the formats as they were.
C13_OutOfRangeRejected ==
  [][OutOfRange(last', Len(text)) => (text' = text /\ formats' = formats)]_vars

(***************************************************************************)
(* Properties of the descriptors for the splices (SpecCharOps).            *)
(***************************************************************************)
\* The characters of the text at [index, index + chars.length) are chars.
IsSliceAt(t, chars, index) ==
  /\ index + Len(chars) <= Len(t)
  /\ \A k \in 1..Len(chars) : t[index + k] = chars[k]

\* C12: getInsertCharsOps(chars, index) returns one pair, insertChars
\* {index, value: chars} / removeChars {index, count: chars.length}, and
\* getRemoveCharsOps(chars, index), with chars the characters of the text
\* at index, returns one pair removeChars {index, count: chars.length} /
\* insertChars {index, value: chars}; in both cases carrying out do and
\* then undo with insertCharactersAt(value, index) and
\* removeCharactersAt(index, count) gives the text as it was.
C12_CharsOpsUndoRestoresText ==
  /\ last.op = "getInsertCharsOps" =>
       /\ Len(ops) = 1
       /\ ops[1].do.op = "insertChars"
       /\ ops[1].do.index = last.index
       /\ ops[1].do.value = last.chars
       /\ ops[1].undo.op = "removeChars"
       /\ ops[1].undo.index = last.index
       /\ ops[1].undo.count = Len(last.chars)
       /\ removedText(insertedText(text, ops[1].do.value, ops[1].do.index),
                      ops[1].undo.index, ops[1].undo.count) = text
  /\ (last.op = "getRemoveCharsOps" /\ IsSliceAt(text, last.chars, last.index)) =>
       /\ Len(ops) = 1
       /\ ops[1].do.op = "removeChars"
       /\ ops[1].do.index = last.index
       /\ ops[1].do.count = Len(last.chars)
       /\ ops[1].undo.op = "insertChars"
       /\ ops[1].undo.index = last.index
       /\ ops[1].undo.value = last.chars
       /\ insertedText(removedText(text, ops[1].do.index, ops[1].do.count),
                       ops[1].undo.value, ops[1].undo.index) = text

\* C12 witness: getRemoveCharsOps was called, with a direction, for two
\* different characters that stand in the text, after its first character.
C12_Witness ==
  /\ last.op = "getRemoveCharsOps" /\ last.flag
  /\ last.index > 0 /\ Len(last.chars) = 2 /\ last.chars[1] # last.chars[2]
  /\ IsSliceAt(text, last.chars, last.index)
  /\ removedText(text, ops[1].do.index, ops[1].do.count) # text
  /\ ops[1].undo.cursorOffset # ops[1].undo.index

(***************************************************************************)
(* Properties of normalizeFormats_ (SpecNormalize).                        *)
(***************************************************************************)
\* C14: normalizeFormats_ run on its own result changes nothing, for every
\* list of formats of any types and ranges that is ordered by from.
C14_NormalizeIdempotent ==
  last.op = "normalizeFormats_" => normalizeFormats_(formats) = formats

\* C14 witness: normalizeFormats_ found three formats of two types, merged
\* two of them and left two formats.
C14_Witness ==
  /\ last.op = "normalizeFormats_"
  /\ Len(last.result.list) = 3 /\ Len(formats) = 2
  /\ formats[1].type # formats[2].type
  /\ formats[1].to > last.result.list[1].to
  /\ normalizeFormats_(formats) = formats

\* C16: on a list of valid formats sorted by from then type,
\* normalizeFormats_ leaves, for every type, the covered positions of the
\* text as they were: ranges are merged with ranges of their own type only,
\* and no type is lost nor any range shortened where types overlap.
C16_NormalizeKeepsCoverage ==
  (/\ last.op = "normalizeFormats_"
   /\ AllValid(last.result.list, MaxLen)
   /\ SortedByFromThenType(last.result.list)) =>
    \A t \in Types : Covered(formats, t) = Covered(last.result.list, t)

====
